---- MODULE Spec2Model ----
(***************************************************************************)
(* Model of circuit_transformers.py: the Pauli twirling-set search         *)
(* (generate_pauli_twirling_sets), the PauliTwirling pass and the          *)
(* Local2qFolding pass.                                                    *)
(*                                                                         *)
(* Arithmetic is exact.  A complex number is a pair <<re, im>> of          *)
(* integers; a gate is a record [scale2, m] standing for the matrix        *)
(* m / sqrt(scale2), so that ECR (entries in {0, +-1, +-i} / sqrt 2) is    *)
(* represented without irrationals.  Angles are counted in units of pi/2.  *)
(* A scale factor is the rational num / ScaleDen.                          *)
(***************************************************************************)
EXTENDS Integers, Sequences, FiniteSets, TLC

VARIABLES
    \* generate_pauli_twirling_sets
    two_qubit_gate,        \* the gate name given to the search
    pos,                   \* number of quadruples of product(...) consumed
    twirling_sets,         \* the list under construction
    search_status,         \* "running", "returned" or "AssertionError"
    \* PauliTwirling: two transforms, two runs one after the other
    twirling_gate,         \* gate both transforms were constructed for
    twirling_set,          \* the list __init__ got from the search
    seed,                  \* transform -> seed given to __init__
    rng,                   \* transform -> state of its generator
    xform,                 \* run -> transform whose run() it is
    tdag,                  \* run -> the graph the run mutates
    tdag0,                 \* the input graph both runs are given (a copy each)
    todo,                  \* nodes of collect_runs still to visit
    draws,                 \* run -> twirl_idx drawn, in encounter order
    cur,                   \* run in progress (1, 2; 3 once both returned)
    tpc,                   \* "call", "loop" or "done"
    \* Local2qFolding
    scale_factor,          \* numerator of the scale factor over ScaleDen
    folding_gate,
    dag,                   \* the graph the folding pass mutates
    dag0,                  \* the graph as it was given
    num_2q_gates,
    odd_fold_factor,
    folding_gate_indices,  \* the array np.random.choice returned
    idx,
    fold_todo,             \* nodes of collect_runs still to visit
    looked_up,             \* whether count_ops()[folding_gate] was evaluated
    substituted,           \* number of substitute_node_with_dag calls
    fold_status            \* "call", "loop", "returned" or an exception name

searchVars == <<two_qubit_gate, pos, twirling_sets, search_status>>
twirlVars == <<twirling_gate, twirling_set, seed, rng, xform, tdag, tdag0, todo, draws, cur, tpc>>
foldVars == <<scale_factor, folding_gate, dag, dag0, num_2q_gates, odd_fold_factor,
              folding_gate_indices, idx, fold_todo, looked_up, substituted,
              fold_status>>
vars == <<searchVars, twirlVars, foldVars>>

---------------------------------------------------------------------------
(* Bounds of the model *)

\* longest input graph given to the folding pass, in nodes
MaxNodes == 4
\* longest input graph given to the twirling pass, in nodes
MaxTwirlNodes == 2
\* number of states of the modelled generator
RngMod == 16
\* largest seed given to PauliTwirling
MaxSeed == 1
\* scale factors are the multiples of 1/ScaleDen
ScaleDen == 2
\* largest integer scale factor
MaxScale == 5

---------------------------------------------------------------------------
(* Complex numbers and matrices *)

CAdd(a, b) == <<a[1] + b[1], a[2] + b[2]>>
CSub(a, b) == <<a[1] - b[1], a[2] - b[2]>>
CMul(a, b) == <<a[1] * b[1] - a[2] * b[2], a[1] * b[2] + a[2] * b[1]>>
CAbsSq(a) == a[1] * a[1] + a[2] * a[2]

c0 == <<0, 0>>
c1 == <<1, 0>>
ci == <<0, 1>>
cm1 == <<0 - 1, 0>>
cmi == <<0, 0 - 1>>

Dim == 1..4

\* matrices are tuples of rows, each a tuple of entries
MatMul(A0, B0) ==
    LET AB == CHOOSE v \in {<<A0, B0>>} : TRUE
        A == AB[1]
        B == AB[2]
        e(r, c) == CAdd(CAdd(CMul(A[r][1], B[1][c]), CMul(A[r][2], B[2][c])),
                        CAdd(CMul(A[r][3], B[3][c]), CMul(A[r][4], B[4][c])))
        row(r) == <<e(r, 1), e(r, 2), e(r, 3), e(r, 4)>>
    IN  <<row(1), row(2), row(3), row(4)>>

MatScale(z, A) ==
    LET row(r) == <<CMul(z, A[r][1]), CMul(z, A[r][2]), CMul(z, A[r][3]),
                    CMul(z, A[r][4])>>
    IN  <<row(1), row(2), row(3), row(4)>>

MatEq(A, B) == \A r \in Dim : \A c \in Dim : A[r][c] = B[r][c]

\* sum over the entries of |A - B|^2
DistSq(A, B) ==
    LET d(r, c) == CAbsSq(CSub(A[r][c], B[r][c]))
        row(r) == d(r, 1) + d(r, 2) + d(r, 3) + d(r, 4)
    IN  row(1) + row(2) + row(3) + row(4)

---------------------------------------------------------------------------
(* Gate catalog (qiskit.circuit.library, little-endian: qubit 0 is the     *)
(* least significant bit of the basis-state index)                         *)

operator_list == <<"id", "z", "x", "y">>

PauliMatrix(p) ==
    CASE p = "id" -> <<<<c1, c0>>, <<c0, c1>>>>
      [] p = "z"  -> <<<<c1, c0>>, <<c0, cm1>>>>
      [] p = "x"  -> <<<<c0, c1>>, <<c1, c0>>>>
      [] p = "y"  -> <<<<c0, cmi>>, <<ci, c0>>>>

GateNames == {"cx", "cz", "ecr"}

\* to_matrix() of CXGate, CZGate and ECRGate, as m / sqrt(scale2)
GateMatrix(g) ==
    CASE g = "cx"  -> [scale2 |-> 1,
                       m |-> <<<<c1, c0, c0, c0>>,
                               <<c0, c0, c0, c1>>,
                               <<c0, c0, c1, c0>>,
                               <<c0, c1, c0, c0>>>>]
      [] g = "cz"  -> [scale2 |-> 1,
                       m |-> <<<<c1, c0, c0, c0>>,
                               <<c0, c1, c0, c0>>,
                               <<c0, c0, c1, c0>>,
                               <<c0, c0, c0, cm1>>>>]
      [] g = "ecr" -> [scale2 |-> 2,
                       m |-> <<<<c0, c1, c0, ci>>,
                               <<c1, c0, cmi, c0>>,
                               <<c0, ci, c0, c1>>,
                               <<cmi, c0, c1, c0>>>>]

\* bit of qubit q in the basis state of row or column r
Bit(r, q) == IF q = 0 THEN (r - 1) % 2 ELSE (r - 1) \div 2

\* the 4x4 matrix of the single-qubit gate p applied to qubit q of two
OnQubit(p, q) ==
    LET P == PauliMatrix(p)
        e(r, c) == IF Bit(r, 1 - q) = Bit(c, 1 - q)
                   THEN P[Bit(r, q) + 1][Bit(c, q) + 1]
                   ELSE c0
        row(r) == <<e(r, 1), e(r, 2), e(r, 3), e(r, 4)>>
    IN  <<row(1), row(2), row(3), row(4)>>

---------------------------------------------------------------------------
(* generate_pauli_twirling_sets *)

\* np.pi, in units of pi/2
Pi == 2
TwoPi == 2 * Pi
NoPhase == 0 - 1

\* e^{i * phase}
PhaseFactor(phase) ==
    CASE phase % TwoPi = 0 -> c1
      [] phase % TwoPi = 1 -> ci
      [] phase % TwoPi = 2 -> cm1
      [] phase % TwoPi = 3 -> cmi

NumQuadruples ==
    Len(operator_list) * Len(operator_list) * Len(operator_list) * Len(operator_list)

\* the p-th element (from 0) of product(operator_list, repeat=4)
Quadruple(p) ==
    <<operator_list[((p \div 64) % 4) + 1], operator_list[((p \div 16) % 4) + 1],
      operator_list[((p \div 4) % 4) + 1], operator_list[(p % 4) + 1]>>

\* Operator.from_circuit(qc) for the circuit of the loop body, without the
\* 1/sqrt(scale2) factor of the two-qubit gate: a gate appended later
\* multiplies from the left
CircuitSwapped(g, gates) ==
    MatMul(OnQubit(gates[4], 0),
      MatMul(OnQubit(gates[3], 1),
        MatMul(GateMatrix(g).m,
          MatMul(OnQubit(gates[2], 1), OnQubit(gates[1], 0)))))

CircuitMatrix(g, gates) ==
    MatMul(OnQubit(gates[4], 1),
      MatMul(OnQubit(gates[3], 0),
        MatMul(GateMatrix(g).m,
          MatMul(OnQubit(gates[2], 1), OnQubit(gates[1], 0)))))

\* the phase the loop body assigns from norm = ||circuit - target||_F.
\* norm^2 = DistSq / scale2 is a multiple of 1/2, so |norm| < 1e-15 exactly
\* when DistSq = 0, and |norm - 4| < 1e-15 exactly when DistSq = 16 * scale2
ClassifyZeroOnly(g, gates) ==
    IF DistSq(CircuitMatrix(g, gates), GateMatrix(g).m) = 0 THEN 0 ELSE NoPhase

Classify(g, gates) ==
    LET normSq == DistSq(CircuitMatrix(g, gates), GateMatrix(g).m)
    IN  IF normSq = 0 THEN 0
        ELSE IF normSq = 16 * GateMatrix(g).scale2 THEN Pi
        ELSE NoPhase

\* assert Operator.from_circuit(qc) == target_unitary, after
\* qc.global_phase += phase
AssertHolds(g, gates, phase) ==
    MatEq(MatScale(PhaseFactor(phase), CircuitMatrix(g, gates)), GateMatrix(g).m)

InList(x, list) == \E i \in 1..Len(list) : list[i] = x

\* one iteration of the for loop, on the list built so far
LoopBody(g, p, st) ==
    LET gates == Quadruple(p)
        phase == Classify(g, gates)
        twirl_set == <<gates, phase>>
    IN  IF phase = NoPhase THEN st
        ELSE IF ~AssertHolds(g, gates, phase)
             THEN [st EXCEPT !.status = "AssertionError"]
        ELSE IF InList(twirl_set, st.sets) THEN st
        ELSE [st EXCEPT !.sets = Append(st.sets, twirl_set)]

\* the for loop over the quadruples lo .. hi - 1, on the list built so far;
\* an AssertionError ends it (the range is halved to keep evaluation shallow)
RECURSIVE SearchRange(_, _, _, _)
SearchRange(g, lo, hi, st) ==
    IF st.status = "AssertionError" \/ lo >= hi THEN st
    ELSE IF hi = lo + 1 THEN LoopBody(g, lo, st)
    ELSE LET mid == (lo + hi) \div 2
             first == CHOOSE v \in {SearchRange(g, lo, mid, st)} : TRUE
         IN  SearchRange(g, mid, hi, first)

\* the list the function returns
generate_pauli_twirling_sets(g) ==
    SearchRange(g, 0, NumQuadruples, [sets |-> <<>>, status |-> "running"]).sets

SearchInit ==
    /\ two_qubit_gate \in GateNames
    /\ pos = 0
    /\ twirling_sets = <<>>
    /\ search_status = "running"

SearchStep ==
    /\ search_status = "running"
    /\ pos < NumQuadruples
    /\ LET st == LoopBody(two_qubit_gate, pos,
                          [sets |-> twirling_sets, status |-> "running"])
       IN  /\ twirling_sets' = st.sets
           /\ search_status' = st.status
    /\ pos' = pos + 1
    /\ UNCHANGED <<two_qubit_gate, twirlVars, foldVars>>

SearchReturn ==
    /\ search_status = "running"
    /\ pos = NumQuadruples
    /\ search_status' = "returned"
    /\ UNCHANGED <<two_qubit_gate, pos, twirling_sets, twirlVars, foldVars>>

---------------------------------------------------------------------------
(* Circuit graph (qiskit DAGCircuit): the op nodes in topological order    *)
(* and the global phase.  A node is [id, name, qargs]; ids stand for the   *)
(* identity of node objects.                                               *)

\* the kinds of node an input graph is made of, for a pass on gate g
NodeKinds(g) ==
    {[name |-> g, qargs |-> <<0, 1>>], [name |-> g, qargs |-> <<1, 0>>],
     [name |-> "h", qargs |-> <<0>>]}

InitPhases == {0, TwoPi - 1}

InputDags(g, maxLen) ==
    UNION {{[nodes |-> [i \in 1..n |-> [id |-> i, name |-> k[i].name,
                                       qargs |-> k[i].qargs]],
             global_phase |-> ph] :
              k \in [1..n -> NodeKinds(g)], ph \in InitPhases} : n \in 0..maxLen}

EmptyDag == [nodes |-> <<>>, global_phase |-> 0]

RECURSIVE SelectIds(_, _)
SelectIds(nodes, name) ==
    IF nodes = <<>> THEN <<>>
    ELSE IF Head(nodes).name = name
         THEN <<Head(nodes).id>> \o SelectIds(Tail(nodes), name)
         ELSE SelectIds(Tail(nodes), name)

\* dag.collect_runs([name]), the runs laid end to end: the op nodes called
\* name, each once, in the order the graph enumerates them
collect_runs(d, name) == SelectIds(d.nodes, name)

\* dag.count_ops(): the names that occur, each with its count
count_ops(d) ==
    [nm \in {d.nodes[i].name : i \in 1..Len(d.nodes)} |->
        Cardinality({i \in 1..Len(d.nodes) : d.nodes[i].name = nm})]

NodeOf(d, id) == d.nodes[CHOOSE i \in 1..Len(d.nodes) : d.nodes[i].id = id]

MaxId(d) ==
    IF d.nodes = <<>> THEN 0
    ELSE CHOOSE m \in {d.nodes[i].id : i \in 1..Len(d.nodes)} :
            \A i \in 1..Len(d.nodes) : d.nodes[i].id <= m

\* dag.substitute_node_with_dag(node, sub): the node is removed, the ops of
\* sub take its place on the node's qubits (qreg[k] is the node's k-th
\* qubit), and sub's global phase is added to the graph's, modulo 2 pi
substitute_node_with_dag(d, id, sub) ==
    LET i == CHOOSE j \in 1..Len(d.nodes) : d.nodes[j].id = id
        node == d.nodes[i]
        base == MaxId(d)
        new == [k \in 1..Len(sub.ops) |->
                  [id |-> base + k, name |-> sub.ops[k].name,
                   qargs |-> [q \in 1..Len(sub.ops[k].qargs) |->
                                 node.qargs[sub.ops[k].qargs[q] + 1]]]]
    IN  [nodes |-> SubSeq(d.nodes, 1, i - 1) \o new
                     \o SubSeq(d.nodes, i + 1, Len(d.nodes)),
         global_phase |-> (d.global_phase + sub.global_phase) % TwoPi]

---------------------------------------------------------------------------
(* PauliTwirling *)

NoSeed == 0 - 1
Seeds == 0..MaxSeed

\* np.random.default_rng(seed): the states the new generator can be in.
\* A seed fixes the state; without one it comes from the system's entropy
SeedStatesUnseeded(sd) == 0..(RngMod - 1)

SeedStates(sd) ==
    IF sd = NoSeed THEN 0..(RngMod - 1) ELSE {(7 * sd + 3) % RngMod}

\* rng.integers(0, n): the generator steps, and the value comes from the
\* new state
RngStep(st) == (5 * st + 1) % RngMod
RngInteger(st, n) == RngStep(st) % n

\* the five-node graph run() builds for a node and a twirling-set entry
TwirlDagNoPhase(op, entry) ==
    [ops |-> <<[name |-> entry[1][1], qargs |-> <<0>>],
               [name |-> entry[1][2], qargs |-> <<1>>],
               [name |-> op, qargs |-> <<0, 1>>],
               [name |-> entry[1][3], qargs |-> <<0>>],
               [name |-> entry[1][4], qargs |-> <<1>>]>>,
     global_phase |-> 0]

TwirlDag(op, entry) ==
    [ops |-> <<[name |-> entry[1][1], qargs |-> <<0>>],
               [name |-> entry[1][2], qargs |-> <<1>>],
               [name |-> op, qargs |-> <<0, 1>>],
               [name |-> entry[1][3], qargs |-> <<0>>],
               [name |-> entry[1][4], qargs |-> <<1>>]>>,
     global_phase |-> entry[2]]

Runs == 1..2

\* the state after both transforms were constructed (the second only when
\* the second run does not reuse the first) and each run was given its copy
\* of the input graph
TwirlInit ==
    /\ twirling_gate \in GateNames
    /\ twirling_set = generate_pauli_twirling_sets(twirling_gate)
    /\ tdag0 \in InputDags(twirling_gate, MaxTwirlNodes)
    /\ xform \in {<<1, 1>>, <<1, 2>>}
    /\ seed \in [Runs -> Seeds \cup {NoSeed}]
    /\ xform[2] = 1 => seed[2] = NoSeed
    /\ rng \in [Runs -> 0..(RngMod - 1)]
    /\ rng[1] \in SeedStates(seed[1])
    /\ IF xform[2] = 1 THEN rng[2] = 0 ELSE rng[2] \in SeedStates(seed[2])
    /\ tdag = [r \in Runs |-> tdag0]
    /\ draws = [r \in Runs |-> <<>>]
    /\ todo = <<>>
    /\ cur = 1
    /\ tpc = "call"

\* run(): the runs are collected before the first substitution
TwirlCall ==
    /\ tpc = "call"
    /\ todo' = collect_runs(tdag[cur], twirling_gate)
    /\ tpc' = "loop"
    /\ UNCHANGED <<twirling_gate, twirling_set, seed, rng, xform, tdag, tdag0, draws, cur>>
    /\ UNCHANGED <<searchVars, foldVars>>

\* run(): the body of the loop for one node
TwirlNode ==
    /\ tpc = "loop"
    /\ todo # <<>>
    /\ LET t == xform[cur]
           twirling_len == Len(twirling_set)
           twirl_idx == RngInteger(rng[t], twirling_len)
           node == NodeOf(tdag[cur], Head(todo))
           twirl_dag == TwirlDag(node.name, twirling_set[twirl_idx + 1])
       IN  /\ rng' = [rng EXCEPT ![t] = RngStep(rng[t])]
           /\ draws' = [draws EXCEPT ![cur] = Append(@, twirl_idx)]
           /\ tdag' = [tdag EXCEPT ![cur] =
                          substitute_node_with_dag(@, node.id, twirl_dag)]
    /\ todo' = Tail(todo)
    /\ UNCHANGED <<twirling_gate, twirling_set, seed, xform, tdag0, cur, tpc>>
    /\ UNCHANGED <<searchVars, foldVars>>

\* run(): return dag; the next run, if any, is then called
TwirlReturn ==
    /\ tpc = "loop"
    /\ todo = <<>>
    /\ cur' = cur + 1
    /\ tpc' = IF cur = 2 THEN "done" ELSE "call"
    /\ UNCHANGED <<twirling_gate, twirling_set, seed, rng, xform, tdag, tdag0, todo, draws>>
    /\ UNCHANGED <<searchVars, foldVars>>

---------------------------------------------------------------------------
(* Local2qFolding *)

NoValue == 0 - 1

\* the scale factors of the model: numerators over ScaleDen, from 1 up
ScaleFactors == ScaleDen..(MaxScale * ScaleDen)

\* self.scale_factor == 1
IsOneNever(sf) == FALSE

IsOne(sf) == sf = ScaleDen

\* np.ceil(value), for value = sf / ScaleDen
Ceil(sf) == (sf + ScaleDen - 1) \div ScaleDen

\* int(np.ceil(value) // 2 * 2 + 1)
NextOddFromFloor(sf) == ((sf \div ScaleDen) \div 2) * 2 + 1

_next_odd_if_not_odd(sf) == (Ceil(sf) \div 2) * 2 + 1

\* dag.count_ops()[name]: NoValue stands for the KeyError of an absent name
CountLookupDefaultZero(d, name) ==
    IF name \in DOMAIN count_ops(d) THEN count_ops(d)[name] ELSE 0

CountLookup(d, name) ==
    IF name \in DOMAIN count_ops(d) THEN count_ops(d)[name] ELSE NoValue

\* int(np.floor(num_2q_gates * (scale_factor - 1) / (odd_fold_factor - 1))),
\* for odd_fold_factor # 1
NumToFold(n, sf, off) == (n * (sf - ScaleDen)) \div (ScaleDen * (off - 1))

IsInjective(arr) ==
    \A i \in 1..Len(arr) : \A j \in 1..Len(arr) : arr[i] = arr[j] => i = j

\* np.random.choice(a=a, size=size, replace=False) on the global generator:
\* the arrays it can return (none when it raises ValueError, size > a)
ChoiceWithReplacement(a, size) == [1..size -> 0..(a - 1)]

Choice(a, size) == {arr \in [1..size -> 0..(a - 1)] : IsInjective(arr)}

\* idx in folding_gate_indices
InArray(x, arr) == \E i \in 1..Len(arr) : arr[i] = x

\* fold_factor = odd_fold_factor if idx in folding_gate_indices else 1
FoldFactorAlwaysOne(i, arr, off) == 1

FoldFactor(i, arr, off) == IF InArray(i, arr) THEN off ELSE 1

\* the graph run() builds for a node: fold_factor times its op
FoldDagOneLess(op, fold_factor) ==
    [ops |-> [k \in 1..(fold_factor - 1) |-> [name |-> op, qargs |-> <<0, 1>>]],
     global_phase |-> 0]

FoldDag(op, fold_factor) ==
    [ops |-> [k \in 1..fold_factor |-> [name |-> op, qargs |-> <<0, 1>>]],
     global_phase |-> 0]

FoldGates == {"cx"}

FoldInit ==
    /\ scale_factor \in ScaleFactors
    /\ folding_gate \in FoldGates
    /\ dag0 \in InputDags(folding_gate, MaxNodes)
    /\ dag = dag0
    /\ num_2q_gates = NoValue
    /\ odd_fold_factor = NoValue
    /\ folding_gate_indices = <<>>
    /\ idx = 0
    /\ fold_todo = <<>>
    /\ looked_up = FALSE
    /\ substituted = 0
    /\ fold_status = "call"

\* run(): scale_factor == 1, return dag
FoldReturnIdentity ==
    /\ fold_status = "call"
    /\ IsOne(scale_factor)
    /\ fold_status' = "returned"
    /\ UNCHANGED <<scale_factor, folding_gate, dag, dag0, num_2q_gates,
                   odd_fold_factor, folding_gate_indices, idx, fold_todo,
                   looked_up, substituted>>
    /\ UNCHANGED <<searchVars, twirlVars>>

\* run(): dag.count_ops()[self.folding_gate] raises KeyError
FoldLookupFail ==
    /\ fold_status = "call"
    /\ ~IsOne(scale_factor)
    /\ CountLookup(dag, folding_gate) = NoValue
    /\ looked_up' = TRUE
    /\ fold_status' = "KeyError"
    /\ UNCHANGED <<scale_factor, folding_gate, dag, dag0, num_2q_gates,
                   odd_fold_factor, folding_gate_indices, idx, fold_todo,
                   substituted>>
    /\ UNCHANGED <<searchVars, twirlVars>>

\* run(): the count, the odd fold factor, the indices to fold, idx = 0 and
\* the runs, collected before the first substitution
FoldSelect ==
    /\ fold_status = "call"
    /\ ~IsOne(scale_factor)
    /\ CountLookup(dag, folding_gate) # NoValue
    /\ looked_up' = TRUE
    /\ num_2q_gates' = CountLookup(dag, folding_gate)
    /\ odd_fold_factor' = _next_odd_if_not_odd(scale_factor)
    /\ IF odd_fold_factor' = 1
       THEN /\ fold_status' = "ZeroDivisionError"
            /\ UNCHANGED <<folding_gate_indices, fold_todo>>
       ELSE LET size == NumToFold(num_2q_gates', scale_factor, odd_fold_factor')
            IN  IF Choice(num_2q_gates', size) = {}
                THEN /\ fold_status' = "ValueError"
                     /\ UNCHANGED <<folding_gate_indices, fold_todo>>
                ELSE /\ folding_gate_indices' \in Choice(num_2q_gates', size)
                     /\ fold_todo' = collect_runs(dag, folding_gate)
                     /\ fold_status' = "loop"
    /\ UNCHANGED <<scale_factor, folding_gate, dag, dag0, idx, substituted>>
    /\ UNCHANGED <<searchVars, twirlVars>>

\* run(): the body of the loop for one node
FoldNode ==
    /\ fold_status = "loop"
    /\ fold_todo # <<>>
    /\ LET node == NodeOf(dag, Head(fold_todo))
           fold_factor == FoldFactor(idx, folding_gate_indices, odd_fold_factor)
       IN  dag' = substitute_node_with_dag(dag, node.id, FoldDag(node.name, fold_factor))
    /\ idx' = idx + 1
    /\ substituted' = substituted + 1
    /\ fold_todo' = Tail(fold_todo)
    /\ UNCHANGED <<scale_factor, folding_gate, dag0, num_2q_gates, odd_fold_factor,
                   folding_gate_indices, looked_up, fold_status>>
    /\ UNCHANGED <<searchVars, twirlVars>>

\* run(): return dag
FoldReturn ==
    /\ fold_status = "loop"
    /\ fold_todo = <<>>
    /\ fold_status' = "returned"
    /\ UNCHANGED <<scale_factor, folding_gate, dag, dag0, num_2q_gates,
                   odd_fold_factor, folding_gate_indices, idx, fold_todo,
                   looked_up, substituted>>
    /\ UNCHANGED <<searchVars, twirlVars>>

---------------------------------------------------------------------------
(* Specifications: each pass, and the search, on its own *)

SearchIdle ==
    /\ two_qubit_gate = "cx"
    /\ pos = 0
    /\ twirling_sets = <<>>
    /\ search_status = "idle"

TwirlIdle ==
    /\ twirling_gate = "cx"
    /\ twirling_set = <<>>
    /\ seed = <<NoSeed, NoSeed>>
    /\ rng = <<0, 0>>
    /\ xform = <<1, 1>>
    /\ tdag = <<EmptyDag, EmptyDag>>
    /\ tdag0 = EmptyDag
    /\ todo = <<>>
    /\ draws = <<<<>>, <<>>>>
    /\ cur = 1
    /\ tpc = "idle"

FoldIdle ==
    /\ scale_factor = ScaleDen
    /\ folding_gate = "cx"
    /\ dag = EmptyDag
    /\ dag0 = EmptyDag
    /\ num_2q_gates = NoValue
    /\ odd_fold_factor = NoValue
    /\ folding_gate_indices = <<>>
    /\ idx = 0
    /\ fold_todo = <<>>
    /\ looked_up = FALSE
    /\ substituted = 0
    /\ fold_status = "idle"

SearchNext == SearchStep \/ SearchReturn
TwirlNext == TwirlCall \/ TwirlNode \/ TwirlReturn
FoldNext == FoldReturnIdentity \/ FoldLookupFail \/ FoldSelect \/ FoldNode \/ FoldReturn

InitSearch ==
    /\ SearchInit
    /\ TwirlIdle
    /\ FoldIdle
InitTwirl ==
    /\ SearchIdle
    /\ TwirlInit
    /\ FoldIdle
InitFold ==
    /\ SearchIdle
    /\ TwirlIdle
    /\ FoldInit

SpecSearch == InitSearch /\ [][SearchNext]_vars
SpecTwirl == InitTwirl /\ [][TwirlNext]_vars
SpecFold == InitFold /\ [][FoldNext]_vars

---------------------------------------------------------------------------
(* Properties of generate_pauli_twirling_sets (SpecSearch) *)

\* the matrix of gate hi on qubit 1 together with gate lo on qubit 0
Kron(hi, lo) ==
    LET H == PauliMatrix(hi)
        L == PauliMatrix(lo)
        e(r, c) == CMul(H[((r - 1) \div 2) + 1][((c - 1) \div 2) + 1],
                        L[((r - 1) % 2) + 1][((c - 1) % 2) + 1])
        row(r) == <<e(r, 1), e(r, 2), e(r, 3), e(r, 4)>>
    IN  <<row(1), row(2), row(3), row(4)>>

\* p0 on control (qubit 0), p1 on target (qubit 1), g, p2 on control, p3 on
\* target, as one matrix (times sqrt(scale2))
SequenceMatrix(g, quad) ==
    MatMul(Kron(quad[4], quad[3]), MatMul(GateMatrix(g).m, Kron(quad[2], quad[1])))

EntryValid(g, entry) ==
    /\ entry[2] \in {0, Pi}
    /\ MatEq(MatScale(PhaseFactor(entry[2]), SequenceMatrix(g, entry[1])),
             GateMatrix(g).m)

\* C1: every entry (quadruple, phase) of the list built for gate g has phase
\* 0 or pi, and the matrix of its sequence p0, p1, g, p2, p3 times
\* e^{i phase} equals the matrix of g
Thm_C1_EntriesValid ==
    \A i \in 1..Len(twirling_sets) : EntryValid(two_qubit_gate, twirling_sets[i])

\* the search for ecr returned, with entries of phase 0 and of phase pi
Wit_C1_EntriesValid ==
    /\ search_status = "returned"
    /\ two_qubit_gate = "ecr"
    /\ \E i \in 1..Len(twirling_sets) : twirling_sets[i][2] = 0
    /\ \E i \in 1..Len(twirling_sets) : twirling_sets[i][2] = Pi

\* C2: the list returned for cx and for cz has exactly 16 entries, all 256
\* quadruples were enumerated, and no quadruple is in it twice
Thm_C2_SixteenEntries ==
    (search_status = "returned" /\ two_qubit_gate \in {"cx", "cz"}) =>
        /\ pos = 256
        /\ Len(twirling_sets) = 16
        /\ \A i \in 1..Len(twirling_sets) : \A j \in 1..Len(twirling_sets) :
              twirling_sets[i][1] = twirling_sets[j][1] => i = j

\* the search for cz returned its 16 entries, some of them of phase pi
Wit_C2_SixteenEntries ==
    /\ search_status = "returned"
    /\ two_qubit_gate = "cz"
    /\ Len(twirling_sets) = 16
    /\ \E i \in 1..Len(twirling_sets) : twirling_sets[i][2] = Pi

---------------------------------------------------------------------------
(* Properties of PauliTwirling (SpecTwirl) *)

\* a graph's nodes without their identities
Shape(nodes) == [i \in 1..Len(nodes) |-> <<nodes[i].name, nodes[i].qargs>>]

\* the five nodes that stand for an occurrence on (control, target)
FiveNodes(g, control, target, entry) ==
    <<<<entry[1][1], <<control>>>>, <<entry[1][2], <<target>>>>,
      <<g, <<control, target>>>>,
      <<entry[1][3], <<control>>>>, <<entry[1][4], <<target>>>>>>

\* the input graph with its k-th occurrence of g replaced by the five nodes
\* of the entry at index drawn[k]
RECURSIVE Twirled(_, _, _, _)
Twirled(nodes, g, set, drawn) ==
    IF nodes = <<>> THEN <<>>
    ELSE IF Head(nodes).name = g
         THEN FiveNodes(g, Head(nodes).qargs[1], Head(nodes).qargs[2],
                        set[Head(drawn) + 1])
              \o Twirled(Tail(nodes), g, set, Tail(drawn))
         ELSE <<<<Head(nodes).name, Head(nodes).qargs>>>>
              \o Twirled(Tail(nodes), g, set, drawn)

RECURSIVE PhaseSum(_, _)
PhaseSum(set, drawn) ==
    IF drawn = <<>> THEN 0 ELSE set[Head(drawn) + 1][2] + PhaseSum(set, Tail(drawn))

Occurrences(d, g) == Cardinality({i \in 1..Len(d.nodes) : d.nodes[i].name = g})

\* C3: once a run of PauliTwirling has returned, one index in [0, N) was
\* drawn for each of the K occurrences of twirling_gate, each occurrence is
\* replaced by the five nodes of the entry at its index (entry[0] on control,
\* entry[1] on target, the gate, entry[2] on control, entry[3] on target),
\* and the global phase is the initial one plus the K phases, modulo 2 pi
Thm_C3_TwirlSubstitution ==
    \A r \in Runs : r < cur =>
        /\ Len(draws[r]) = Occurrences(tdag0, twirling_gate)
        /\ \A k \in 1..Len(draws[r]) : draws[r][k] \in 0..(Len(twirling_set) - 1)
        /\ Shape(tdag[r].nodes) = Twirled(tdag0.nodes, twirling_gate, twirling_set, draws[r])
        /\ Len(tdag[r].nodes) = Len(tdag0.nodes) + 4 * Occurrences(tdag0, twirling_gate)
        /\ tdag[r].global_phase =
              (tdag0.global_phase + PhaseSum(twirling_set, draws[r])) % TwoPi

\* a run returned on a graph with two occurrences, on (0, 1) and on (1, 0),
\* one drawn entry of phase pi and one of phase 0, from a non-zero phase
Wit_C3_TwirlSubstitution ==
    /\ cur > 1
    /\ Len(draws[1]) = 2
    /\ tdag0.nodes[1].qargs # tdag0.nodes[2].qargs
    /\ tdag0.global_phase # 0
    /\ twirling_set[draws[1][1] + 1][2] = Pi
    /\ twirling_set[draws[1][2] + 1][2] = 0

---------------------------------------------------------------------------
(* Properties of Local2qFolding (SpecFold) *)

\* the input graph with every occurrence of g replaced by k copies of itself
RECURSIVE Folded(_, _, _)
Folded(nodes, g, k) ==
    IF nodes = <<>> THEN <<>>
    ELSE IF Head(nodes).name = g
         THEN [j \in 1..k |-> <<g, Head(nodes).qargs>>] \o Folded(Tail(nodes), g, k)
         ELSE <<<<Head(nodes).name, Head(nodes).qargs>>>> \o Folded(Tail(nodes), g, k)

IsOdd(k) == k % 2 = 1

\* C5: with scale_factor == 1, run() returns the input graph as it was (same
\* nodes, same order, same global phase), substitutes no node and never looks
\* up the count of folding_gate, whether or not the gate occurs
Thm_C5_IdentityNoOp ==
    (scale_factor = ScaleDen /\ fold_status # "call") =>
        /\ fold_status = "returned"
        /\ dag = dag0
        /\ substituted = 0
        /\ ~looked_up
        /\ num_2q_gates = NoValue

\* run() returned for scale factor 1 on a non-empty graph without the gate
Wit_C5_IdentityNoOp ==
    /\ scale_factor = ScaleDen
    /\ fold_status = "returned"
    /\ Len(dag0.nodes) > 0
    /\ Occurrences(dag0, folding_gate) = 0

\* C6: for an odd integer scale factor k >= 3 and N >= 1 occurrences, once
\* run() returned: odd_fold_factor = k, num_to_fold = N, every occurrence is
\* replaced by k consecutive copies of the gate on the same qubits, and
\* (k - 1) * N nodes were added
Thm_C6_OddIntegerFoldsAll ==
    \A k \in 3..MaxScale :
        (IsOdd(k) /\ scale_factor = k * ScaleDen /\ fold_status = "returned") =>
            /\ Occurrences(dag0, folding_gate) >= 1
            /\ odd_fold_factor = k
            /\ num_2q_gates = Occurrences(dag0, folding_gate)
            /\ Len(folding_gate_indices) = num_2q_gates
            /\ Shape(dag.nodes) = Folded(dag0.nodes, folding_gate, k)
            /\ Len(dag.nodes) = Len(dag0.nodes) + (k - 1) * num_2q_gates

\* run() returned for scale factor 5 on a graph with 4 occurrences
Wit_C6_OddIntegerFoldsAll ==
    /\ scale_factor = 5 * ScaleDen
    /\ fold_status = "returned"
    /\ Occurrences(dag0, folding_gate) = 4
    /\ Len(dag.nodes) = 20

\* C7: for a scale factor other than 1 and N >= 1 occurrences, the selected
\* indices are pairwise distinct, each lies in [0, N), and their number is
\* floor(N * (scale_factor - 1) / (odd_fold_factor - 1)), between 0 and N
Thm_C7_SelectionDistinct ==
    /\ fold_status # "ValueError"
    /\ fold_status \in {"loop", "returned"} /\ scale_factor # ScaleDen =>
        LET n == Occurrences(dag0, folding_gate)
            size == Len(folding_gate_indices)
            den == ScaleDen * (odd_fold_factor - 1)
        IN  /\ n >= 1
            /\ num_2q_gates = n
            /\ \A i \in 1..size : folding_gate_indices[i] \in 0..(n - 1)
            /\ \A i \in 1..size : \A j \in 1..size :
                  folding_gate_indices[i] = folding_gate_indices[j] => i = j
            /\ size * den <= n * (scale_factor - ScaleDen)
            /\ n * (scale_factor - ScaleDen) < (size + 1) * den
            /\ 0 <= size
            /\ size <= n

\* two of four occurrences were selected
Wit_C7_SelectionDistinct ==
    /\ fold_status = "loop"
    /\ num_2q_gates = 4
    /\ Len(folding_gate_indices) = 2

\* C8 as claimed: the number of folding_gate nodes increases for every scale
\* factor other than 1 and is unchanged for scale factor 1
Cex_C8_CountIncreases ==
    fold_status = "returned" =>
        IF scale_factor = ScaleDen
        THEN Occurrences(dag, folding_gate) = Occurrences(dag0, folding_gate)
        ELSE Occurrences(dag, folding_gate) > Occurrences(dag0, folding_gate)

\* C8 as amended: the number of folding_gate nodes never decreases; from N it
\* becomes N + num_to_fold * (odd_fold_factor - 1), which is more than N
\* exactly when at least one occurrence is selected (num_to_fold >= 1), and
\* it is unchanged when none is and for scale factor 1
Thm_C8_CountNeverDecreases ==
    fold_status = "returned" =>
        LET n == Occurrences(dag0, folding_gate)
            after == Occurrences(dag, folding_gate)
        IN  IF scale_factor = ScaleDen
            THEN after = n
            ELSE /\ after = n + Len(folding_gate_indices) * (odd_fold_factor - 1)
                 /\ after >= n
                 /\ after > n <=> Len(folding_gate_indices) >= 1

\* run() returned having folded some occurrences and left others single
Wit_C8_CountNeverDecreases ==
    /\ fold_status = "returned"
    /\ Len(folding_gate_indices) > 0
    /\ Len(folding_gate_indices) < num_2q_gates
    /\ Occurrences(dag, folding_gate) > Occurrences(dag0, folding_gate)

\* C9: with a scale factor other than 1 on a graph without folding_gate,
\* run() fails at the count lookup, before the odd fold factor and the
\* indices are computed and before any substitution; with scale factor 1 it
\* returns
Thm_C9_AbsentGateFails ==
    /\ fold_status = "KeyError" =>
          /\ Occurrences(dag0, folding_gate) = 0
          /\ scale_factor # ScaleDen
          /\ looked_up
          /\ num_2q_gates = NoValue
          /\ odd_fold_factor = NoValue
          /\ folding_gate_indices = <<>>
          /\ substituted = 0
          /\ dag = dag0
    /\ (Occurrences(dag0, folding_gate) = 0 /\ fold_status # "call") =>
          fold_status = (IF scale_factor = ScaleDen THEN "returned" ELSE "KeyError")

\* the lookup failed on a non-empty graph without the gate
Wit_C9_AbsentGateFails ==
    /\ fold_status = "KeyError"
    /\ Len(dag0.nodes) > 0

\* C10: for every scale factor >= 1, _next_odd_if_not_odd gives
\* 2 * floor(ceil(scale_factor) / 2) + 1, the smallest odd integer that is
\* >= ceil(scale_factor); it is >= 3 for scale factors above 1, so that
\* odd_fold_factor - 1 is not zero where num_to_fold is computed
Thm_C10_NextOdd ==
    LET v == _next_odd_if_not_odd(scale_factor)
        c == CHOOSE x \in 1..(MaxScale + 1) :
                x * ScaleDen >= scale_factor /\ (x - 1) * ScaleDen < scale_factor
    IN  /\ v = 2 * (c \div 2) + 1
        /\ IsOdd(v)
        /\ v >= c
        /\ \A j \in 1..(v - 1) : IsOdd(j) => j < c
        /\ scale_factor > ScaleDen => v >= 3
        /\ fold_status # "ZeroDivisionError"
        /\ (fold_status \in {"loop", "returned"} /\ scale_factor # ScaleDen) =>
              odd_fold_factor = v /\ odd_fold_factor - 1 # 0

\* the odd fold factor 5 was computed for a scale factor that is no integer
Wit_C10_NextOdd ==
    /\ fold_status = "loop"
    /\ scale_factor % ScaleDen # 0
    /\ odd_fold_factor = 5

====
